---- MODULE Spec2Model ----
(***************************************************************************)
(* Approval & activity workflow of src/server.js: the directory-backed     *)
(* state machine of approval requests (Pending_Approval -> Approved /      *)
(* Rejected), the per-day activity log, and the pending listing.           *)
(*                                                                         *)
(* Node runs the handlers on one event loop: a handler runs without        *)
(* interruption from one `await` of a file-system call to the next, so     *)
(* every action below is the completion of one awaited fs call followed by *)
(* the synchronous code up to the next awaited fs call.                    *)
(*                                                                         *)
(* File names, file contents and decision strings are strings, and the     *)
(* string functions of the code (includes, endsWith, split, parseInt,      *)
(* replace, the frontmatter regular expression) are computed on them.      *)
(***************************************************************************)
EXTENDS Integers, Sequences, FiniteSets, TLC

(***************************************************************************)
(* Bounds of the model.                                                    *)
(***************************************************************************)
\* number of POST /api/approve requests in one behaviour
NumRequests == 2
\* number of GET /api/approvals requests in one behaviour
NumListings == 1
\* the clock reads StartMs .. StartMs + MaxTicks
MaxTicks == 1
\* Date.now() of the first state: larger than every id in a file name
StartMs == 100
\* number of files in the pending bucket in the first state
MaxFiles == 2
\* number of GET /api/dashboard requests in one behaviour
NumDashboards == 1
\* number of POST /api/process requests in one behaviour
NumProcesses == 1
\* number of WebSocket connections in one behaviour
NumSockets == 2
\* number of cron ticks in one behaviour
MaxCronTicks == 2
\* number of entries the day-bucket file may hold in the first state
MaxLogLen == 12

Requests == 1..NumRequests
Listings == 1..NumListings

(***************************************************************************)
(* Inputs.                                                                 *)
(***************************************************************************)
\* names the producer of approval requests may have given its files
FilePool == {"PAY_1.md", "PAY_10.md", "notes.md"}
\* a request file as its producer writes it, and a file without a header
PendingContent == "---\nstatus: pending\n---"
MalformedContent == "status unknown"
\* what each file of the pool holds when the producer has written it
InitialContent(f) == IF f = "notes.md" THEN MalformedContent ELSE PendingContent
\* approvalId of a request body: 0 is the falsy value of a missing field
ApprovalIds == {0, 1, 7, 10}
\* action of a request body
Actions == {"approve", "reject", ""}

\* the value of a variable that holds no file name / no error / no content
None == ""
\* JavaScript's undefined, where it is stored in a listing record
Undefined == "undefined"

(***************************************************************************)
(* String functions of the JavaScript runtime, as the code uses them.      *)
(***************************************************************************)
\* s.substring(i-1, j) with 1-based inclusive bounds
Sub(s, i, j) == SubSeq(s, i, j)

\* smallest index >= from at which pat occurs in s, 0 when there is none
IndexFrom(s, pat, from) ==
    LET hits == {i \in from..(Len(s) - Len(pat) + 1) : Sub(s, i, i + Len(pat) - 1) = pat}
    IN  IF hits = {} THEN 0 ELSE CHOOSE i \in hits : \A k \in hits : i <= k

\* String.prototype.includes
Includes(s, pat) == IndexFrom(s, pat, 1) # 0

\* String.prototype.endsWith
EndsWith(s, suf) ==
    /\ Len(suf) <= Len(s)
    /\ Sub(s, Len(s) - Len(suf) + 1, Len(s)) = suf

\* String.prototype.startsWith
StartsWith(s, pre) ==
    /\ Len(pre) <= Len(s)
    /\ Sub(s, 1, Len(pre)) = pre

\* String.prototype.split on a one-character separator
RECURSIVE Split(_, _)
Split(s, sep) ==
    LET i == IndexFrom(s, sep, 1)
    IN  IF i = 0 THEN <<s>>
        ELSE <<Sub(s, 1, i - 1)>> \o Split(Sub(s, i + 1, Len(s)), sep)

\* Array.prototype.join
RECURSIVE Join(_, _)
Join(parts, sep) ==
    IF Len(parts) = 0 THEN ""
    ELSE IF Len(parts) = 1 THEN parts[1]
    ELSE parts[1] \o sep \o Join(Tail(parts), sep)

WhiteSpace == {" ", "\t", "\n", "\r"}

\* String.prototype.trim
RECURSIVE TrimLeft(_)
TrimLeft(s) ==
    IF Len(s) > 0 /\ Sub(s, 1, 1) \in WhiteSpace THEN TrimLeft(Sub(s, 2, Len(s))) ELSE s

RECURSIVE TrimRight(_)
TrimRight(s) ==
    IF Len(s) > 0 /\ Sub(s, Len(s), Len(s)) \in WhiteSpace
    THEN TrimRight(Sub(s, 1, Len(s) - 1)) ELSE s

Trim(s) == TrimRight(TrimLeft(s))

Digits == {"0", "1", "2", "3", "4", "5", "6", "7", "8", "9"}

DigitValue(c) ==
    CASE c = "0" -> 0 [] c = "1" -> 1 [] c = "2" -> 2 [] c = "3" -> 3 [] c = "4" -> 4
      [] c = "5" -> 5 [] c = "6" -> 6 [] c = "7" -> 7 [] c = "8" -> 8 [] c = "9" -> 9

\* value of the longest prefix of digits of s, continuing from acc
RECURSIVE DigitsPrefix(_, _)
DigitsPrefix(s, acc) ==
    IF Len(s) > 0 /\ Sub(s, 1, 1) \in Digits
    THEN DigitsPrefix(Sub(s, 2, Len(s)), 10 * acc + DigitValue(Sub(s, 1, 1)))
    ELSE acc

\* parseInt(s): leading white space is skipped, then the digits are read;
\* NaN when no digit is there.  s = Undefined stands for parseInt(undefined).
ParseInt(s) ==
    LET t == TrimLeft(s)
    IN  IF Len(t) > 0 /\ Sub(t, 1, 1) \in Digits
        THEN [nan |-> FALSE, val |-> DigitsPrefix(t, 0)]
        ELSE [nan |-> TRUE, val |-> 0]

\* String.prototype.replace(pattern, replacement) for a pattern that is a
\* literal without the g flag: the first occurrence only
ReplaceFirst(s, pat, rep) ==
    LET i == IndexFrom(s, pat, 1)
    IN  IF i = 0 THEN s
        ELSE Sub(s, 1, i - 1) \o rep \o Sub(s, i + Len(pat), Len(s))

\* Number.prototype.toString of a non-negative integer
NumberToString(n) == ToString(n)

\* new Date(ms).toISOString(), abstracted to a string that is one-to-one in ms
ToISOString(ms) == "T" \o ToString(ms)

\* { ...base, ...over }: the later spread wins on a shared key
Spread(base, over) ==
    [k \in (DOMAIN base) \cup (DOMAIN over) |->
        IF k \in DOMAIN over THEN over[k] ELSE base[k]]

\* a || b for string-valued a: the empty string and undefined are falsy
OrElse(a, b) == IF a = Undefined \/ a = "" THEN b ELSE a

\* obj[key] of a parsed header
Get(obj, key) == IF key \in DOMAIN obj THEN obj[key] ELSE Undefined

(***************************************************************************)
(* parseFrontmatter (server.js 548-563).                                   *)
(***************************************************************************)
\* the header lines folded into an object, a later line overwriting an
\* earlier one with the same key
RECURSIVE FrontmatterOf(_, _)
FrontmatterOf(lines, acc) ==
    IF Len(lines) = 0 THEN acc
    ELSE LET parts == Split(lines[1], ":")
             key == parts[1]
             valueParts == Tail(parts)
         IN  IF key # "" /\ Len(valueParts) > 0
             THEN FrontmatterOf(Tail(lines),
                      Spread(acc, (Trim(key) :> Trim(Join(valueParts, ":")))))
             ELSE FrontmatterOf(Tail(lines), acc)

\* content.match(/^---\n([\s\S]*?)\n---/): the text between the opening
\* "---\n" and the first "\n---" after it; the lines of it as an object
parseFrontmatter(content) ==
    LET close == IF StartsWith(content, "---\n") THEN IndexFrom(content, "\n---", 5) ELSE 0
    IN  IF close = 0 THEN <<>>
        ELSE FrontmatterOf(Split(Sub(content, 5, close - 1), "\n"), <<>>)

(***************************************************************************)
(* Vault storage: three buckets of files, each a map from file name to     *)
(* content, the order in which readdir lists names, and the day-bucket log *)
(* file of today.                                                          *)
(***************************************************************************)
Buckets == {"Pending_Approval", "Approved", "Rejected"}

VARIABLES
    vault,      \* vault[b]: the files of bucket b, a function name -> content
    dirs,       \* the bucket directories that exist
    dirOrder,   \* the order in which the file system lists names
    logFile,    \* Logs/<today>.json: [exists, entries]
    executed,   \* the approvalIds executeApprovedAction was called with, in order
    reqs,       \* the POST /api/approve requests
    lists,      \* the GET /api/approvals requests
    now,        \* the clock, in ms
    written,    \* history: the entries whose logAction completed, in completion order
    raced       \* history: some logAction read the file while another was between
                \* its read and its write

coreVars == <<vault, dirs, dirOrder, logFile, executed, reqs, lists, now, written, raced>>

\* The dashboard snapshot (GET /api/dashboard) and the files only it reads.
VARIABLES
    dashboardFile,  \* Dashboard.md: [exists, content]
    statsFile,      \* Logs/stats.json: [exists, valid, stats]
    dashes          \* the GET /api/dashboard requests

dashVars == <<dashboardFile, statsFile, dashes>>

\* POST /api/process, the WebSocket server and the two cron tasks.
VARIABLES
    procs,          \* the POST /api/process requests
    called,         \* the processing routines called, in order
    errorLog,       \* the messages given to logger.error, in order
    sockets,        \* sockets[ws]: the readyState of WebSocket ws
    clients,        \* the Set `clients`
    inbox,          \* inbox[ws]: the messages sent on ws, in order
    alive,          \* the process is running
    rejections,     \* the cron callbacks whose promise was rejected
    events,         \* history: the messages given to broadcastUpdate, in order
    joinedAt,       \* history: Len(events) when ws was added to clients
    leftAt          \* history: Len(events) when ws stopped being open

svcVars == <<procs, called, errorLog, sockets, clients, inbox, alive, rejections,
             events, joinedAt, leftAt>>

vars == <<coreVars, dashVars, svcVars>>

Dashboards == 1..NumDashboards
Processes == 1..NumProcesses
Sockets == 1..NumSockets

\* WebSocket.readyState (the constants of the ws library)
Connecting == 0
Open == 1
Closing == 2
Closed == 3

\* the sequences in which the file system may list the names of a set
Orders(names) ==
    {o \in [1..Cardinality(names) -> names] : \A f \in names : \E i \in DOMAIN o : o[i] = f}

\* fs.readdir(dir): the names in dir, in the file system's order
ReadDir(bucket) ==
    LET present(f) == f \in DOMAIN vault[bucket]
    IN  SelectSeq(dirOrder, present)

\* a map without name f
Without(files, f) == [g \in (DOMAIN files) \ {f} |-> files[g]]

\* a map with name f holding content c
With(files, f, c) == [g \in (DOMAIN files) \cup {f} |-> IF g = f THEN c ELSE files[g]]

\* a rename done as a copy: the source keeps the file
CopyFile(v, src, dst, f) == [v EXCEPT ![dst] = With(@, f, v[src][f])]

\* fs.rename(src/f, dst/f) when src/f exists: one atomic step of the file
\* system, replacing dst/f if it is there
RenameFile(v, src, dst, f) ==
    [v EXCEPT ![src] = Without(@, f), ![dst] = With(v[dst], f, v[src][f])]

\* fs.writeFile(dir/f, c)
WriteFileTo(v, dir, f, c) == [v EXCEPT ![dir] = With(@, f, c)]

(***************************************************************************)
(* POST /api/approve (server.js 330-359), updateApprovalStatus (565-591),  *)
(* executeApprovedAction (593-597) and logAction (599-613).                *)
(***************************************************************************)
NoEntry == [type |-> "", action |-> "", approvalId |-> 0, timestamp |-> ""]

IdleRequest ==
    [pc |-> "idle", approvalId |-> 0, action |-> "", approvalFile |-> None,
     content |-> None, logs |-> <<>>, logEntry |-> NoEntry, status |-> 0, error |-> None,
     failedAt |-> None, listed |-> None]

\* destDir of updateApprovalStatus
DestDir(action) == IF action = "approve" THEN "Approved" ELSE "Rejected"

\* files.find(f => f.includes(approvalId.toString())): the first name of the
\* listing that contains the id's digits, None when there is none
RECURSIVE Find(_, _)
Find(files, approvalId) ==
    IF Len(files) = 0 THEN None
    ELSE IF Includes(files[1], NumberToString(approvalId)) THEN files[1]
    ELSE Find(Tail(files), approvalId)

\* content.replace(/status: pending/, `status: ${action}d\napproved_at: ${iso}`)
UpdatedContent(content, action, ms) ==
    ReplaceFirst(content, "status: pending",
                 "status: " \o action \o "d\napproved_at: " \o ToISOString(ms))

\* the log entry the handler builds at lines 347-352
LogEntryOf(req, ms) ==
    [type |-> "approval", action |-> req.action, approvalId |-> req.approvalId,
     timestamp |-> ToISOString(ms)]

\* logs.unshift(logEntry): the entry put first instead of last
Unshift(logs, logEntry) == <<logEntry>> \o logs

\* logs.push(logEntry) of logAction
Push(logs, logEntry) == Append(logs, logEntry)

\* JSON.parse of the day-bucket file, [] when the read throws.  The entries
\* hold strings and numbers only, which JSON.stringify and JSON.parse return
\* unchanged.
ReadLogs == IF logFile.exists THEN logFile.entries ELSE <<>>

\* res.json / res.status(..).json: the handler returns and its locals are gone
Responded(req, status) ==
    [req EXCEPT !.pc = "done", !.status = status,
                !.content = None, !.logs = <<>>, !.logEntry = NoEntry]

\* the catch block of the handler: a 500 response
Failed(req, code) == [Responded(req, 500) EXCEPT !.error = code]

\* The handler from the return of updateApprovalStatus to logAction's
\* awaited readFile (lines 341-352, 600-605): executeApprovedAction awaits no
\* I/O, so no other request runs in between.
AfterUpdate(r, req) ==
    /\ executed' = IF req.action = "approve" THEN Append(executed, req.approvalId)
                   ELSE executed
    /\ reqs' = [reqs EXCEPT ![r] = [req EXCEPT !.pc = "logRead",
                                               !.logEntry = LogEntryOf(req, now)]]

\* the request arrives: lines 332-336, and the call of fs.readdir at 570
\* both fields missing: the test of line 334 with && for ||
MissingBoth(approvalId, action) == approvalId = 0 /\ action = ""

\* !approvalId || !action (line 334): a missing field is undefined, which
\* the test does not tell from 0 or ''
MissingFields(approvalId, action) == approvalId = 0 \/ action = ""

\* the handler from the request body to the 400 response or to the call of
\* fs.readdir
Arrived(req, id, act) ==
    IF MissingFields(id, act)
    THEN Responded([req EXCEPT !.approvalId = id, !.action = act], 400)
    ELSE [req EXCEPT !.pc = "readdir", !.approvalId = id, !.action = act]

Post(r) ==
    /\ reqs[r].pc = "idle"
    /\ IF r = 1 THEN TRUE ELSE reqs[r - 1].pc # "idle"
    /\ \E id \in ApprovalIds, act \in Actions :
          reqs' = [reqs EXCEPT ![r] = Arrived(@, id, act)]
    /\ UNCHANGED <<vault, dirs, dirOrder, logFile, executed, lists, now, written, raced>>
    /\ UNCHANGED <<dashVars, svcVars>>

\* fs.readdir resolves: lines 570-578, or the return at 591 when no name matches
Readdir(r) ==
    /\ reqs[r].pc = "readdir"
    /\ LET approvalFile == Find(ReadDir("Pending_Approval"), reqs[r].approvalId)
       IN  IF approvalFile # None
           THEN /\ reqs' = [reqs EXCEPT ![r].pc = "mkdir", ![r].approvalFile = approvalFile]
                /\ UNCHANGED executed
           ELSE AfterUpdate(r, reqs[r])
    /\ UNCHANGED <<vault, dirs, dirOrder, logFile, lists, now, written, raced>>
    /\ UNCHANGED <<dashVars, svcVars>>

\* fs.mkdir(destDir, {recursive: true}) resolves: lines 578-581
Mkdir(r) ==
    /\ reqs[r].pc = "mkdir"
    /\ dirs' = dirs \cup {DestDir(reqs[r].action)}
    /\ reqs' = [reqs EXCEPT ![r].pc = "rename"]
    /\ UNCHANGED <<vault, dirOrder, logFile, executed, lists, now, written, raced>>
    /\ UNCHANGED <<dashVars, svcVars>>

\* fs.rename resolves or rejects with ENOENT: lines 581-584
Rename(r) ==
    /\ reqs[r].pc = "rename"
    /\ LET f == reqs[r].approvalFile
           dst == DestDir(reqs[r].action)
       IN  IF f \in DOMAIN vault["Pending_Approval"] /\ dst \in dirs
           THEN /\ vault' = RenameFile(vault, "Pending_Approval", dst, f)
                /\ reqs' = [reqs EXCEPT ![r].pc = "readFile"]
           ELSE /\ reqs' = [reqs EXCEPT ![r] = Failed(@, "ENOENT")]
                /\ UNCHANGED vault
    /\ UNCHANGED <<dirs, dirOrder, logFile, executed, lists, now, written, raced>>
    /\ UNCHANGED <<dashVars, svcVars>>

\* fs.readFile(destPath) resolves: lines 584-589
ReadFile(r) ==
    /\ reqs[r].pc = "readFile"
    /\ LET f == reqs[r].approvalFile
           dst == DestDir(reqs[r].action)
       IN  IF f \in DOMAIN vault[dst]
           THEN reqs' = [reqs EXCEPT ![r].pc = "writeFile",
                           ![r].content = UpdatedContent(vault[dst][f], reqs[r].action, now)]
           ELSE reqs' = [reqs EXCEPT ![r] = Failed(@, "ENOENT")]
    /\ UNCHANGED <<vault, dirs, dirOrder, logFile, executed, lists, now, written, raced>>
    /\ UNCHANGED <<dashVars, svcVars>>

\* fs.writeFile(destPath, updatedContent) resolves: line 589, then the handler
WriteFile(r) ==
    /\ reqs[r].pc = "writeFile"
    /\ vault' = WriteFileTo(vault, DestDir(reqs[r].action), reqs[r].approvalFile,
                            reqs[r].content)
    /\ AfterUpdate(r, reqs[r])
    /\ UNCHANGED <<dirs, dirOrder, logFile, lists, now, written, raced>>
    /\ UNCHANGED <<dashVars, svcVars>>

\* logAction's fs.readFile resolves or rejects: lines 604-612
LogRead(r) ==
    /\ reqs[r].pc = "logRead"
    /\ reqs' = [reqs EXCEPT ![r].pc = "logWrite",
                            ![r].logs = Push(ReadLogs, reqs[r].logEntry)]
    /\ raced' = (raced \/ \E q \in Requests \ {r} : reqs[q].pc = "logWrite")
    /\ UNCHANGED <<vault, dirs, dirOrder, logFile, executed, lists, now, written>>
    /\ UNCHANGED <<dashVars, svcVars>>

\* logAction's fs.writeFile resolves: line 612, then the response at 354
LogWrite(r) ==
    /\ reqs[r].pc = "logWrite"
    /\ logFile' = [exists |-> TRUE, entries |-> reqs[r].logs]
    /\ written' = Append(written, reqs[r].logEntry)
    /\ reqs' = [reqs EXCEPT ![r] = Responded(@, 200)]
    /\ UNCHANGED <<vault, dirs, dirOrder, executed, lists, now, raced>>
    /\ UNCHANGED <<dashVars, svcVars>>

(***************************************************************************)
(* POST /api/approve with any outcome string in the body, and with storage *)
(* writes that fail: fs.mkdir, fs.rename and fs.writeFile may reject with  *)
(* an I/O error for reasons outside the program (disk full, permissions).  *)
(***************************************************************************)
\* action of a request body: the two outcomes, a missing field, another word
Outcomes == Actions \cup {"archive"}

\* the steps of a decision that write to storage
WriteSteps == {"mkdir", "rename", "writeFile", "logWrite"}

\* the rejection is dropped and the request answered with success
Swallows(req, step) == [Responded(req, 200) EXCEPT !.failedAt = step]

\* an awaited write of step rejects: nothing between the await and the
\* handler's catch (355-358) handles it, so the request is answered 500
Rejects(req, step) == [Failed(req, "EIO") EXCEPT !.failedAt = step]

\* the request arrives with any outcome string
PostAny(r) ==
    /\ reqs[r].pc = "idle"
    /\ IF r = 1 THEN TRUE ELSE reqs[r - 1].pc # "idle"
    /\ \E id \in ApprovalIds, act \in Outcomes :
          reqs' = [reqs EXCEPT ![r] = Arrived(@, id, act)]
    /\ UNCHANGED <<vault, dirs, dirOrder, logFile, executed, lists, now, written, raced>>
    /\ UNCHANGED <<dashVars, svcVars>>

\* an awaited write of request r rejects: fs.mkdir (578), fs.rename (581),
\* fs.writeFile (589) or logAction's fs.writeFile (612); storage is as before
WriteFails(r) ==
    /\ reqs[r].pc \in WriteSteps
    /\ reqs' = [reqs EXCEPT ![r] = Rejects(@, @.pc)]
    /\ UNCHANGED <<vault, dirs, dirOrder, logFile, executed, lists, now, written, raced>>
    /\ UNCHANGED <<dashVars, svcVars>>

(***************************************************************************)
(* GET /api/approvals (server.js 319-327) and getPendingApprovals          *)
(* (436-464).                                                              *)
(***************************************************************************)
IdleListing == [pc |-> "idle", files |-> <<>>, i |-> 0, approvals |-> <<>>, status |-> 0]

\* smallest index >= from of a name of files that ends in ".md", 0 when
\* there is none: the loop at 442-443 skips the other names
RECURSIVE NextMd(_, _)
NextMd(files, from) ==
    IF from > Len(files) THEN 0
    ELSE IF EndsWith(files[from], ".md") THEN from
    ELSE NextMd(files, from + 1)

\* parseInt(file.split('_')[1]) || Date.now()
IdOf(file, ms) ==
    LET parts == Split(file, "_")
        n == ParseInt(IF Len(parts) >= 2 THEN parts[2] ELSE Undefined)
    IN  IF n.nan \/ n.val = 0 THEN ms ELSE n.val

\* the record pushed at 447-455.  amount's default 0 is written "0": the
\* other values of the field are strings.
ApprovalOf(file, content, ms) ==
    LET metadata == parseFrontmatter(content)
    IN  Spread(Spread([id |-> IdOf(file, ms), file |-> file], metadata),
               [title |-> OrElse(Get(metadata, "subject"), Get(metadata, "action")),
                description |-> OrElse(Get(metadata, "description"), "Requires approval"),
                amount |-> OrElse(Get(metadata, "amount"), "0"),
                recipient |-> OrElse(Get(metadata, "recipient"), "Unknown")])

\* getPendingApprovals returns and the handler answers with res.json
Returned(lst, approvals) ==
    [lst EXCEPT !.pc = "done", !.approvals = approvals, !.status = 200,
                !.files = <<>>, !.i = 0]

\* the outcome of getPendingApprovals once its loop has read the file at
\* index i: the next file to read, or the return at 459
Listed(lst, approvals) ==
    LET next == NextMd(lst.files, lst.i + 1)
    IN  IF next = 0
        THEN Returned(lst, approvals)
        ELSE [lst EXCEPT !.pc = "readFile", !.approvals = approvals, !.i = next]

\* getPendingApprovals when its fs.readdir resolves: lines 439-444 up to the
\* first awaited readFile
AfterReaddir(lst) == Listed([lst EXCEPT !.files = ReadDir("Pending_Approval")], <<>>)

\* getPendingApprovals when the fs.readFile of the file at index i resolves,
\* or rejects with ENOENT and the catch at 460-463 returns []
AfterReadFile(lst) ==
    LET file == lst.files[lst.i]
        pending == vault["Pending_Approval"]
    IN  IF file \in DOMAIN pending
        THEN Listed(lst, Append(lst.approvals, ApprovalOf(file, pending[file], now)))
        ELSE Returned(lst, <<>>)

\* the request arrives: fs.readdir is called at 439
GetApprovals(l) ==
    /\ lists[l].pc = "idle"
    /\ IF l = 1 THEN TRUE ELSE lists[l - 1].pc # "idle"
    /\ lists' = [lists EXCEPT ![l].pc = "readdir"]
    /\ UNCHANGED <<vault, dirs, dirOrder, logFile, executed, reqs, now, written, raced>>
    /\ UNCHANGED <<dashVars, svcVars>>

\* fs.readdir resolves: lines 439-444 up to the first awaited readFile
ListReaddir(l) ==
    /\ lists[l].pc = "readdir"
    /\ lists' = [lists EXCEPT ![l] = AfterReaddir(@)]
    /\ UNCHANGED <<vault, dirs, dirOrder, logFile, executed, reqs, now, written, raced>>
    /\ UNCHANGED <<dashVars, svcVars>>

\* fs.readFile of the file at index i resolves, or rejects with ENOENT and
\* the catch at 460-463 returns []
ListReadFile(l) ==
    /\ lists[l].pc = "readFile"
    /\ lists' = [lists EXCEPT ![l] = AfterReadFile(@)]
    /\ UNCHANGED <<vault, dirs, dirOrder, logFile, executed, reqs, now, written, raced>>
    /\ UNCHANGED <<dashVars, svcVars>>

(***************************************************************************)
(* GET /api/dashboard (server.js 308-316): getDashboardData (404-434),     *)
(* getRecentActivities (466-495) and the display tables (497-546).         *)
(***************************************************************************)
\* logs.slice(-10)
RecentCount == 10

\* the compiled-in stats of lines 423-426 and 641-644; aiUptime 99.8 is
\* counted in tenths of a percent
DefaultWeeklyRevenue == 2450
DefaultPendingTasks == 8
DefaultUnreadMessages == 5
DefaultAiUptime == 998

\* obj[key] || fallback for a number: a missing key and 0 are falsy
NumberOr(obj, key, fallback) ==
    IF key \in DOMAIN obj /\ obj[key] # 0 THEN obj[key] ELSE fallback

\* stats.<field> read directly, without the || fallback
RawStats(stats) ==
    [weeklyRevenue |-> NumberOr(stats, "weeklyRevenue", 0),
     pendingTasks |-> NumberOr(stats, "pendingTasks", 0),
     unreadMessages |-> NumberOr(stats, "unreadMessages", 0),
     aiUptime |-> NumberOr(stats, "aiUptime", 0)]

\* the stats object of lines 422-427
StatsOf(stats) ==
    [weeklyRevenue |-> NumberOr(stats, "weeklyRevenue", DefaultWeeklyRevenue),
     pendingTasks |-> NumberOr(stats, "pendingTasks", DefaultPendingTasks),
     unreadMessages |-> NumberOr(stats, "unreadMessages", DefaultUnreadMessages),
     aiUptime |-> NumberOr(stats, "aiUptime", DefaultAiUptime)]

\* stats with pendingTasks counted from the listing of the pending bucket
DerivedStats(stats, approvals) ==
    [StatsOf(stats) EXCEPT !.pendingTasks = Len(approvals)]

\* the stats of the object returned at 418-429: built from the stats file
\* alone, the listing of the pending bucket has no part in them
SnapshotStats(stats, approvals) == StatsOf(stats)

\* the stats object of getDefaultDashboardData, lines 640-645
DefaultStats ==
    [weeklyRevenue |-> DefaultWeeklyRevenue, pendingTasks |-> DefaultPendingTasks,
     unreadMessages |-> DefaultUnreadMessages, aiUptime |-> DefaultAiUptime]

\* getDashboardTemplate (82-114), shortened to its header and title
DashboardTemplate == "---\nstatus: active\n---\n# AI Employee Dashboard"

\* new Date(ms).toLocaleTimeString(), abstracted to a string one-to-one in ms
ToLocaleTimeString(ms) == "L" \o ToString(ms)

\* new Date(iso).getTime(): the inverse of ToISOString
DateParse(iso) == ParseInt(Sub(iso, 2, Len(iso))).val

\* getActivityTitle (497-506)
getActivityTitle(log) ==
    LET t == Get(log, "action_type")
    IN  CASE t = "email_send" -> "Email sent"
          [] t = "whatsapp_reply" -> "WhatsApp replied"
          [] t = "payment_processed" -> "Payment processed"
          [] t = "social_post" -> "Social media post"
          [] t = "audit_completed" -> "Audit completed"
          [] OTHER -> "Action performed"

\* getActivityDescription (508-510)
getActivityDescription(log) ==
    OrElse(Get(log, "description"), "Action: " \o Get(log, "action_type"))

\* getActivityIcon (512-521)
getActivityIcon(actionType) ==
    CASE actionType = "email_send" -> "fas fa-envelope"
      [] actionType = "whatsapp_reply" -> "fab fa-whatsapp"
      [] actionType = "payment_processed" -> "fas fa-credit-card"
      [] actionType = "social_post" -> "fas fa-share-alt"
      [] actionType = "audit_completed" -> "fas fa-chart-bar"
      [] OTHER -> "fas fa-cog"

\* getActivityColor (523-532)
getActivityColor(actionType) ==
    CASE actionType = "email_send" -> "#2563eb"
      [] actionType = "whatsapp_reply" -> "#25d366"
      [] actionType = "payment_processed" -> "#10b981"
      [] actionType = "social_post" -> "#0077b5"
      [] actionType = "audit_completed" -> "#f59e0b"
      [] OTHER -> "#6b7280"

\* getSampleActivities (534-546)
getSampleActivities(ms) ==
    <<[id |-> 1, type |-> "email", title |-> "System initialized",
       description |-> "AI Employee started successfully",
       time |-> ToLocaleTimeString(ms), icon |-> "fas fa-rocket", iconColor |-> "#10b981"]>>

\* the object built per entry at lines 476-484
ActivityOf(log) ==
    [id |-> Get(log, "timestamp"),
     type |-> Get(log, "action_type"),
     title |-> getActivityTitle(log),
     description |-> getActivityDescription(log),
     time |-> ToLocaleTimeString(DateParse(Get(log, "timestamp"))),
     icon |-> getActivityIcon(Get(log, "action_type")),
     iconColor |-> getActivityColor(Get(log, "action_type"))]

\* logs.slice(-n): the last n elements, in their order
Slice(logs, n) ==
    IF Len(logs) <= n THEN logs ELSE SubSeq(logs, Len(logs) - n + 1, Len(logs))

\* getRecentActivities with an empty list when the file cannot be read
EmptyWhenAbsent(ms) ==
    IF logFile.exists
    THEN LET logs == Slice(logFile.entries, RecentCount)
         IN  [i \in 1..Len(logs) |-> ActivityOf(logs[i])]
    ELSE <<>>

\* getRecentActivities once its fs.readFile has resolved or rejected
getRecentActivities(ms) ==
    IF logFile.exists
    THEN LET logs == Slice(logFile.entries, RecentCount)
         IN  [i \in 1..Len(logs) |-> ActivityOf(logs[i])]
    ELSE getSampleActivities(ms)

\* getDefaultDashboardData (635-648)
getDefaultDashboardData(ms) ==
    [aiActive |-> TRUE, pendingApprovals |-> <<>>,
     recentActivities |-> getSampleActivities(ms), stats |-> DefaultStats,
     dashboardContent |-> DashboardTemplate]

NoSnapshot ==
    [aiActive |-> FALSE, pendingApprovals |-> <<>>, recentActivities |-> <<>>,
     stats |-> <<>>, dashboardContent |-> None]

IdleDash ==
    [pc |-> "idle", stats |-> <<>>, dashboardContent |-> None, lst |-> IdleListing,
     result |-> NoSnapshot, status |-> 0]

\* statsContent of line 411: the text of the file, '{}' when the read rejects
StatsContent ==
    IF statsFile.exists THEN statsFile ELSE [exists |-> TRUE, valid |-> TRUE, stats |-> <<>>]

\* res.json(dashboardData) at 311
DashAnswered(dsh, data) ==
    [dsh EXCEPT !.pc = "done", !.result = data, !.status = 200,
                !.stats = <<>>, !.dashboardContent = None, !.lst = IdleListing]

\* getDashboardData after getPendingApprovals has returned: the call of
\* getRecentActivities, whose fs.readFile is awaited at 474
DashListed(dsh, lst) ==
    IF lst.pc = "done" THEN [dsh EXCEPT !.pc = "readLog", !.lst = lst]
    ELSE [dsh EXCEPT !.pc = "listReadFile", !.lst = lst]

\* the request arrives: the two fs.readFile of Promise.all are called (409-412)
GetDashboard(d) ==
    /\ dashes[d].pc = "idle"
    /\ IF d = 1 THEN TRUE ELSE dashes[d - 1].pc # "idle"
    /\ dashes' = [dashes EXCEPT ![d].pc = "readFiles"]
    /\ UNCHANGED <<coreVars, dashboardFile, statsFile, svcVars>>

\* Promise.all settles: lines 409-415, or the catch at 430-433 when the
\* dashboard document cannot be read or the stats text is not JSON
DashReadFiles(d) ==
    /\ dashes[d].pc = "readFiles"
    /\ dashes' = [dashes EXCEPT ![d] =
                    IF ~dashboardFile.exists \/ ~StatsContent.valid
                    THEN DashAnswered(@, getDefaultDashboardData(now))
                    ELSE [@ EXCEPT !.pc = "listReaddir",
                                   !.stats = StatsContent.stats,
                                   !.dashboardContent = dashboardFile.content,
                                   !.lst = [IdleListing EXCEPT !.pc = "readdir"]]]
    /\ UNCHANGED <<coreVars, dashboardFile, statsFile, svcVars>>

\* the fs.readdir of getPendingApprovals resolves
DashListReaddir(d) ==
    /\ dashes[d].pc = "listReaddir"
    /\ dashes' = [dashes EXCEPT ![d] = DashListed(@, AfterReaddir(@.lst))]
    /\ UNCHANGED <<coreVars, dashboardFile, statsFile, svcVars>>

\* a fs.readFile of getPendingApprovals resolves or rejects
DashListReadFile(d) ==
    /\ dashes[d].pc = "listReadFile"
    /\ dashes' = [dashes EXCEPT ![d] = DashListed(@, AfterReadFile(@.lst))]
    /\ UNCHANGED <<coreVars, dashboardFile, statsFile, svcVars>>

\* the fs.readFile of getRecentActivities resolves or rejects: lines 474-490,
\* then the object returned at 418-429
DashReadLog(d) ==
    /\ dashes[d].pc = "readLog"
    /\ dashes' = [dashes EXCEPT ![d] =
                    DashAnswered(@, [aiActive |-> TRUE,
                                     pendingApprovals |-> @.lst.approvals,
                                     recentActivities |-> getRecentActivities(now),
                                     stats |-> SnapshotStats(@.stats, @.lst.approvals),
                                     dashboardContent |-> @.dashboardContent])]
    /\ UNCHANGED <<coreVars, dashboardFile, statsFile, svcVars>>

(***************************************************************************)
(* POST /api/process (server.js 362-388), the WebSocket server (651-677)   *)
(* and the cron tasks (680-702).  The four processing routines (615-633)   *)
(* stand for processing done outside this file: a call of one either       *)
(* returns or throws.                                                      *)
(***************************************************************************)
\* the case labels of the switch at 366-378
KnownActions == {"emails", "whatsapp", "audit", "report"}
\* action of a request body
ProcessActions == KnownActions \cup {"deploy"}

\* the routine each case label calls
RoutineOf(action) ==
    CASE action = "emails" -> "processEmails"
      [] action = "whatsapp" -> "processWhatsApp"
      [] action = "audit" -> "runBusinessAudit"
      [] action = "report" -> "generateReport"

IdleProcess == [pc |-> "idle", action |-> "", status |-> 0, body |-> ""]

\* the number of cron callbacks that have run
CronTicks == Len(events) + rejections

\* every member of the Set, open or not
EveryClient == clients

\* the clients broadcastUpdate sends to: those with readyState 1 (672-675)
Recipients == {ws \in clients : sockets[ws] = Open}

\* broadcastUpdate(data) (670-677); the JSON text of data is written as data
broadcastUpdate(data) ==
    /\ inbox' = [ws \in Sockets |->
                   IF ws \in Recipients THEN Append(inbox[ws], data) ELSE inbox[ws]]
    /\ events' = Append(events, data)

\* the handler of POST /api/process: the routines await no I/O, so the
\* handler runs from the request to the response in one step
Process(p) ==
    /\ alive
    /\ procs[p].pc = "idle"
    /\ IF p = 1 THEN TRUE ELSE procs[p - 1].pc # "idle"
    /\ \E action \in ProcessActions, returns \in BOOLEAN :
          IF action \in KnownActions
          THEN /\ called' = Append(called, RoutineOf(action))
               /\ IF returns
                  THEN /\ procs' = [procs EXCEPT ![p] =
                                      [pc |-> "done", action |-> action, status |-> 200,
                                       body |-> action \o " processing started"]]
                       /\ UNCHANGED errorLog
                  ELSE /\ procs' = [procs EXCEPT ![p] =
                                      [pc |-> "done", action |-> action, status |-> 500,
                                       body |-> "routine failed"]]
                       /\ errorLog' = Append(errorLog, "Error processing action:")
          ELSE /\ procs' = [procs EXCEPT ![p] =
                              [pc |-> "done", action |-> action, status |-> 500,
                               body |-> "Unknown action"]]
               /\ errorLog' = Append(errorLog, "Error processing action:")
               /\ UNCHANGED called
    /\ UNCHANGED <<coreVars, dashVars, sockets, clients, inbox, alive, rejections,
                   events, joinedAt, leftAt>>

\* wss.on('connection') (654-656): the socket is open and joins the Set
Connect(ws) ==
    /\ alive
    /\ sockets[ws] = Connecting
    /\ IF ws = 1 THEN TRUE ELSE sockets[ws - 1] # Connecting
    /\ sockets' = [sockets EXCEPT ![ws] = Open]
    /\ clients' = clients \cup {ws}
    /\ joinedAt' = [joinedAt EXCEPT ![ws] = Len(events)]
    /\ UNCHANGED <<coreVars, dashVars, procs, called, errorLog, inbox, alive, rejections,
                   events, leftAt>>

\* the closing handshake of a socket starts: readyState is 2 until the
\* 'close' event is emitted
BeginClose(ws) ==
    /\ alive
    /\ sockets[ws] = Open
    /\ sockets' = [sockets EXCEPT ![ws] = Closing]
    /\ leftAt' = [leftAt EXCEPT ![ws] = Len(events)]
    /\ UNCHANGED <<coreVars, dashVars, procs, called, errorLog, clients, inbox, alive,
                   rejections, events, joinedAt>>

\* ws.on('close') (663-666)
Close(ws) ==
    /\ alive
    /\ sockets[ws] = Closing
    /\ sockets' = [sockets EXCEPT ![ws] = Closed]
    /\ clients' = clients \ {ws}
    /\ UNCHANGED <<coreVars, dashVars, procs, called, errorLog, inbox, alive, rejections,
                   events, joinedAt, leftAt>>

\* the message of line 684
AuditCompleted(ms) ==
    [type |-> "audit_completed", message |-> "Weekly audit completed",
     timestamp |-> ToISOString(ms)]

\* the broadcast made without waiting for the audit: it goes out whether the
\* audit returns or throws
BroadcastRegardless(returns) ==
    /\ broadcastUpdate(AuditCompleted(now))
    /\ IF returns
       THEN UNCHANGED <<alive, rejections>>
       ELSE /\ rejections' = rejections + 1
            /\ alive' \in BOOLEAN

\* the weekly callback from the settling of await runBusinessAudit() on
\* (683-688).  When the audit throws, the callback's promise is rejected
\* before the broadcast is reached; nothing in this file handles it, and
\* whether the process survives is up to the cron library and the runtime.
AfterAudit(returns) ==
    IF returns
    THEN /\ broadcastUpdate(AuditCompleted(now))
         /\ UNCHANGED <<alive, rejections>>
    ELSE /\ rejections' = rejections + 1
         /\ alive' \in BOOLEAN
         /\ UNCHANGED <<inbox, events>>

\* the weekly cron callback (680-690)
WeeklyTick ==
    /\ alive
    /\ CronTicks < MaxCronTicks
    /\ called' = Append(called, "runBusinessAudit")
    /\ \E returns \in BOOLEAN : AfterAudit(returns)
    /\ UNCHANGED <<coreVars, dashVars, procs, errorLog, sockets, clients, joinedAt, leftAt>>

\* the five-minute cron callback (692-702)
FiveMinuteTick ==
    /\ alive
    /\ CronTicks < MaxCronTicks
    /\ broadcastUpdate([type |-> "status_update", timestamp |-> ToISOString(now),
                        status |-> "active"])
    /\ UNCHANGED <<coreVars, dashVars, procs, called, errorLog, sockets, clients, alive,
                   rejections, joinedAt, leftAt>>

(***************************************************************************)
(* The client script (part_000): the user picks a request of the list that *)
(* GET /api/approvals returned, and the script posts the id of that record *)
(* with the chosen outcome.                                                *)
(***************************************************************************)
PostListed(r) ==
    /\ reqs[r].pc = "idle"
    /\ \E l \in Listings :
          /\ lists[l].pc = "done"
          /\ \E i \in DOMAIN lists[l].approvals, act \in {"approve", "reject"} :
                reqs' = [reqs EXCEPT ![r] =
                           Arrived([@ EXCEPT !.listed = lists[l].approvals[i].file],
                                   lists[l].approvals[i].id, act)]
    /\ UNCHANGED <<vault, dirs, dirOrder, logFile, executed, lists, now, written, raced>>
    /\ UNCHANGED <<dashVars, svcVars>>

(***************************************************************************)
(* The clock, and the specification.                                       *)
(***************************************************************************)
\* a millisecond passes
Tick ==
    /\ now < StartMs + MaxTicks
    /\ now' = now + 1
    /\ UNCHANGED <<vault, dirs, dirOrder, logFile, executed, reqs, lists, written, raced>>
    /\ UNCHANGED <<dashVars, svcVars>>

\* initVault (server.js 42-61) has created Pending_Approval and Approved; the
\* producer of requests has left any of its files of `pool` in the pending
\* bucket; no request has arrived yet
InitCore(pool, listings, logFiles) ==
    /\ \E present \in {S \in SUBSET pool : Cardinality(S) <= MaxFiles} :
         /\ vault = [b \in Buckets |->
                       IF b = "Pending_Approval" THEN [f \in present |-> InitialContent(f)]
                       ELSE <<>>]
         /\ dirOrder \in Orders(present)
    /\ dirs = {"Pending_Approval", "Approved"}
    /\ logFile \in logFiles
    /\ executed = <<>>
    /\ reqs = [r \in Requests |-> IdleRequest]
    /\ lists = [l \in listings |-> IdleListing]
    /\ now = StartMs
    /\ written = <<>>
    /\ raced = FALSE

\* no GET /api/dashboard request has arrived
InitDashes == dashes = [d \in Dashboards |-> IdleDash]

\* initVault has written Dashboard.md from its template (server.js 63-78);
\* nothing has written Logs/stats.json
InitDashFiles ==
    /\ dashboardFile = [exists |-> TRUE, content |-> DashboardTemplate]
    /\ statsFile = [exists |-> FALSE, valid |-> FALSE, stats |-> <<>>]

\* the server has started (server.js 651-652, 704-713): no socket is
\* connected, no request for processing has arrived, no cron task has run
InitServices ==
    /\ procs = [p \in Processes |-> IdleProcess]
    /\ called = <<>>
    /\ errorLog = <<>>
    /\ sockets = [ws \in Sockets |-> Connecting]
    /\ clients = {}
    /\ inbox = [ws \in Sockets |-> <<>>]
    /\ alive = TRUE
    /\ rejections = 0
    /\ events = <<>>
    /\ joinedAt = [ws \in Sockets |-> 0]
    /\ leftAt = [ws \in Sockets |-> 0]

\* the day-bucket file of a day on which nothing has been logged yet
NoLogFile == [exists |-> FALSE, entries |-> <<>>]

Init == InitCore(FilePool, Listings, {NoLogFile}) /\ InitDashFiles /\ InitDashes /\ InitServices

Next ==
    \/ \E r \in Requests : Post(r)
    \/ \E r \in Requests : Readdir(r)
    \/ \E r \in Requests : Mkdir(r)
    \/ \E r \in Requests : Rename(r)
    \/ \E r \in Requests : ReadFile(r)
    \/ \E r \in Requests : WriteFile(r)
    \/ \E r \in Requests : LogRead(r)
    \/ \E r \in Requests : LogWrite(r)
    \/ \E l \in Listings : GetApprovals(l)
    \/ \E l \in Listings : ListReaddir(l)
    \/ \E l \in Listings : ListReadFile(l)
    \/ Tick

Spec == Init /\ [][Next]_vars

(***************************************************************************)
(* Decisions with any outcome string and failing storage writes.           *)
(***************************************************************************)
NextFaults ==
    \/ \E r \in Requests : PostAny(r)
    \/ \E r \in Requests : Readdir(r)
    \/ \E r \in Requests : Mkdir(r)
    \/ \E r \in Requests : Rename(r)
    \/ \E r \in Requests : ReadFile(r)
    \/ \E r \in Requests : WriteFile(r)
    \/ \E r \in Requests : LogRead(r)
    \/ \E r \in Requests : LogWrite(r)
    \/ \E r \in Requests : WriteFails(r)
    \/ Tick

SpecFaults == Init /\ [][NextFaults]_vars

(***************************************************************************)
(* Listings alone: GET /api/approvals requests with no writer of the vault.*)
(***************************************************************************)
\* the pool with a second file whose name has no numeric segment
ListFilePool == FilePool \cup {"README.md"}

\* two listings, one after or during the other
ListingPair == 1..(NumListings + 1)

InitList ==
    /\ InitCore(ListFilePool, ListingPair, {NoLogFile})
    /\ InitDashFiles /\ InitDashes /\ InitServices

NextList ==
    \/ \E l \in ListingPair : GetApprovals(l)
    \/ \E l \in ListingPair : ListReaddir(l)
    \/ \E l \in ListingPair : ListReadFile(l)
    \/ Tick

SpecList == InitList /\ [][NextList]_vars

(***************************************************************************)
(* The dashboard snapshot over a vault, a day-bucket file, a dashboard     *)
(* document and a stats side-file that other components have written.     *)
(***************************************************************************)
\* the i-th entry other components and earlier decisions have logged today:
\* entries of the approve handler have no action_type
LoggedEntry(i) ==
    IF i % 3 = 0
    THEN [type |-> "approval", action |-> "approve", approvalId |-> i,
          timestamp |-> ToISOString(i)]
    ELSE [action_type |-> IF i % 3 = 1 THEN "email_send" ELSE "file_sync",
          description |-> IF i % 2 = 0 THEN "" ELSE "entry " \o ToString(i),
          timestamp |-> ToISOString(i)]

\* the day-bucket file after k appends, one after the other
LogFileOf(k) == [exists |-> TRUE, entries |-> [i \in 1..k |-> LoggedEntry(i)]]

\* what Logs/stats.json may hold: nothing, {}, counters, text that is not JSON
StatsFiles ==
    {[exists |-> FALSE, valid |-> FALSE, stats |-> <<>>],
     [exists |-> TRUE, valid |-> TRUE, stats |-> <<>>],
     [exists |-> TRUE, valid |-> TRUE,
      stats |-> [weeklyRevenue |-> 3100, pendingTasks |-> 0, unreadMessages |-> 2,
                 aiUptime |-> 975]],
     [exists |-> TRUE, valid |-> FALSE, stats |-> <<>>]}

InitDashboard ==
    /\ InitCore(FilePool, Listings, {NoLogFile} \cup {LogFileOf(k) : k \in 0..MaxLogLen})
    /\ dashboardFile \in {[exists |-> TRUE, content |-> DashboardTemplate],
                          [exists |-> FALSE, content |-> None]}
    /\ statsFile \in StatsFiles
    /\ InitDashes /\ InitServices

NextDashboard ==
    \/ \E d \in Dashboards : GetDashboard(d)
    \/ \E d \in Dashboards : DashReadFiles(d)
    \/ \E d \in Dashboards : DashListReaddir(d)
    \/ \E d \in Dashboards : DashListReadFile(d)
    \/ \E d \in Dashboards : DashReadLog(d)
    \/ Tick

SpecDashboard == InitDashboard /\ [][NextDashboard]_vars

(***************************************************************************)
(* A listing, then the decision of a listed request through its listed id, *)
(* with no other writer of the vault.                                      *)
(***************************************************************************)
\* the request that decides
Deciders == {1}

NextListDecide ==
    \/ \E l \in Listings : GetApprovals(l)
    \/ \E l \in Listings : ListReaddir(l)
    \/ \E l \in Listings : ListReadFile(l)
    \/ \E r \in Deciders : PostListed(r)
    \/ \E r \in Deciders : Readdir(r)
    \/ \E r \in Deciders : Mkdir(r)
    \/ \E r \in Deciders : Rename(r)
    \/ \E r \in Deciders : ReadFile(r)
    \/ \E r \in Deciders : WriteFile(r)
    \/ \E r \in Deciders : LogRead(r)
    \/ \E r \in Deciders : LogWrite(r)
    \/ Tick

SpecListDecide == Init /\ [][NextListDecide]_vars

(***************************************************************************)
(* Two snapshots and a decision, over any dashboard document and stats     *)
(* file.                                                                   *)
(***************************************************************************)
\* two snapshots, one after or during the other
DashPair == 1..(NumDashboards + 1)

InitSnapshots ==
    /\ InitCore(FilePool, Listings, {NoLogFile})
    /\ dashboardFile \in {[exists |-> TRUE, content |-> DashboardTemplate],
                          [exists |-> FALSE, content |-> None]}
    /\ statsFile \in StatsFiles
    /\ dashes = [d \in DashPair |-> IdleDash]
    /\ InitServices

NextSnapshots ==
    \/ \E d \in DashPair : GetDashboard(d)
    \/ \E d \in DashPair : DashReadFiles(d)
    \/ \E d \in DashPair : DashListReaddir(d)
    \/ \E d \in DashPair : DashListReadFile(d)
    \/ \E d \in DashPair : DashReadLog(d)
    \/ \E r \in Deciders : Post(r)
    \/ \E r \in Deciders : Readdir(r)
    \/ \E r \in Deciders : Mkdir(r)
    \/ \E r \in Deciders : Rename(r)
    \/ \E r \in Deciders : ReadFile(r)
    \/ \E r \in Deciders : WriteFile(r)
    \/ \E r \in Deciders : LogRead(r)
    \/ \E r \in Deciders : LogWrite(r)
    \/ Tick

SpecSnapshots == InitSnapshots /\ [][NextSnapshots]_vars

(***************************************************************************)
(* Processing requests, WebSocket clients and the cron tasks.              *)
(***************************************************************************)
NextServices ==
    \/ \E p \in Processes : Process(p)
    \/ \E ws \in Sockets : Connect(ws)
    \/ \E ws \in Sockets : BeginClose(ws)
    \/ \E ws \in Sockets : Close(ws)
    \/ WeeklyTick
    \/ FiveMinuteTick
    \/ Tick

SpecServices == Init /\ [][NextServices]_vars

(***************************************************************************)
(* Properties.                                                             *)
(***************************************************************************)
Pending == vault["Pending_Approval"]
Approved == vault["Approved"]
Rejected == vault["Rejected"]

\* the status field of a file's header, Undefined when it has none
StatusOf(content) == Get(parseFrontmatter(content), "status")

\* the names the vault holds: the file system lists each of them once
VaultFiles == {dirOrder[i] : i \in DOMAIN dirOrder}

\* the number of times x occurs in the sequence s
Occurrences(s, x) == Cardinality({i \in DOMAIN s : s[i] = x})

\* s is t with some elements left out, in the same order
RECURSIVE IsSubsequence(_, _)
IsSubsequence(s, t) ==
    IF Len(s) = 0 THEN TRUE
    ELSE IF Len(t) = 0 THEN FALSE
    ELSE IF s[1] = t[1] THEN IsSubsequence(Tail(s), Tail(t))
    ELSE IsSubsequence(s, Tail(t))

\* a POST /api/approve request has been answered
Answered(r) == reqs[r].pc = "done"

\* C1: in every reachable state each approval request file is in exactly one
\* of the buckets Pending_Approval, Approved, Rejected, and no bucket holds a
\* name the vault does not have.
C1_ExactlyOneBucket ==
    /\ \A f \in VaultFiles : Cardinality({b \in Buckets : f \in DOMAIN vault[b]}) = 1
    /\ \A b \in Buckets : DOMAIN vault[b] \subseteq VaultFiles

\* C1's case: one request has been approved and another rejected
C1_Witness ==
    /\ DOMAIN Approved # {}
    /\ DOMAIN Rejected # {}
    /\ \A r \in Requests : Answered(r) /\ reqs[r].status = 200

\* C2: when requests approve the same id and one of them found and moved the
\* file, executeApprovedAction is called at most once with that id.
C2_ExecutedAtMostOnce ==
    \A r \in Requests :
        (reqs[r].action = "approve" /\ reqs[r].approvalFile # None)
            => Occurrences(executed, reqs[r].approvalId) <= 1

\* C3: a decide whose id matches no pending file, or whose file a concurrent
\* decide renamed away before its own rename, is not answered with a 5xx.
C3_NotFoundIsNoServerFault ==
    \A r \in Requests :
        (Answered(r) /\ (reqs[r].approvalFile = None \/ reqs[r].error = "ENOENT"))
            => reqs[r].status < 500

\* C4: a decide that found no file for its id in the pending bucket changes
\* no bucket, appends nothing to the activity log and is answered not-found.
C4_NotFoundChangesNothing ==
    [][\A r \in Requests :
          (reqs[r].pc \in {"logRead", "logWrite"} /\ reqs[r].approvalFile = None
                /\ reqs'[r] # reqs[r])
            => /\ vault' = vault
               /\ logFile' = logFile
               /\ Answered(r)' => reqs'[r].status = 404]_vars

\* C5: once decide(id, approve) has completed, no file still pending is listed
\* with that id, and the file it moved is in Approved with status approved and
\* a decision timestamp.
C5_ApprovedLeavesPending ==
    \A r \in Requests :
        (Answered(r) /\ reqs[r].status = 200 /\ reqs[r].action = "approve")
            => /\ \A f \in DOMAIN Pending :
                     StatusOf(Pending[f]) = "pending" => IdOf(f, now) # reqs[r].approvalId
               /\ reqs[r].approvalFile # None =>
                     /\ reqs[r].approvalFile \in DOMAIN Approved
                     /\ StatusOf(Approved[reqs[r].approvalFile]) = "approved"
                     /\ "approved_at" \in DOMAIN parseFrontmatter(Approved[reqs[r].approvalFile])

\* C6: the status header of every file of the vault is pending, approved or
\* rejected.
C6_StatusIsOneOfThree ==
    \A b \in Buckets : \A f \in DOMAIN vault[b] :
        "status" \in DOMAIN parseFrontmatter(vault[b][f])
            => StatusOf(vault[b][f]) \in {"pending", "approved", "rejected"}

\* C7: no file in Approved or Rejected carries the status header pending.
C7_DecidedIsNotPending ==
    \A b \in {"Approved", "Rejected"} : \A f \in DOMAIN vault[b] :
        StatusOf(vault[b][f]) # "pending"

\* C8: a listing that has returned holds every .md file that was in the
\* pending bucket throughout the listing (files only ever leave the bucket,
\* so those are the .md files pending now).
C8_ListingKeepsOtherFiles ==
    \A l \in Listings :
        lists[l].pc = "done"
            => \A f \in DOMAIN Pending :
                  EndsWith(f, ".md")
                     => \E i \in DOMAIN lists[l].approvals : lists[l].approvals[i].file = f

\* C9: every entry of the day-bucket file stays in it, in its relative order,
\* at every step.
C9_LogIsAppendOnly ==
    [][IsSubsequence(logFile.entries, logFile'.entries)]_vars

\* C10: when no logAction ran while another was between its read and its
\* write, the day-bucket file holds exactly the appended entries, in append
\* order.
C10_SequentialAppends ==
    ~raced => /\ logFile.entries = written
              /\ logFile.exists = (written # <<>>)

\* C10's case: two appends, one after the other, on an absent day-bucket
C10_Witness ==
    /\ ~raced
    /\ Len(written) = 2
    /\ written[1] # written[2]
    /\ \A r \in Requests : Answered(r)

\* the sequence s reversed
Reverse(s) == [i \in 1..Len(s) |-> s[Len(s) + 1 - i]]

\* a GET /api/dashboard request has been answered
Snapshot(d) == dashes[d].pc = "done"

\* the .md files of the pending bucket
PendingMd == {f \in DOMAIN Pending : EndsWith(f, ".md")}

\* the timestamps of the last n entries of the day-bucket file, the latest first
LatestFirst(n) ==
    LET logs == Slice(logFile.entries, n)
    IN  Reverse([i \in 1..Len(logs) |-> logs[i].timestamp])

\* C11: a snapshot taken after more than RecentCount sequential appends to
\* the day-bucket file lists exactly the last RecentCount entries in
\* recentActivities, the most recent first.
C11_RecentIsLatestFirst ==
    \A d \in Dashboards :
        (/\ Snapshot(d)
         /\ dashboardFile.exists /\ StatsContent.valid
         /\ logFile.exists /\ Len(logFile.entries) > RecentCount)
        => [i \in 1..Len(dashes[d].result.recentActivities) |->
              dashes[d].result.recentActivities[i].id] = LatestFirst(RecentCount)

\* C15: a snapshot taken while the dashboard document or the stats file
\* cannot be read or parsed still lists the pending requests on disk: every
\* .md file of the pending bucket appears in pendingApprovals.
C15_DegradesPartially ==
    \A d \in Dashboards :
        Snapshot(d) =>
            {dashes[d].result.pendingApprovals[i].file :
                i \in DOMAIN dashes[d].result.pendingApprovals} = PendingMd

\* C16: a snapshot taken while the stats file is absent (and the dashboard
\* document readable) has the default stats, field for field, and its other
\* fields are the listing of the pending bucket, the recent activities of the
\* day-bucket file and the dashboard document.
C16_AbsentStatsAreDefaults ==
    \A d \in Dashboards :
        (Snapshot(d) /\ ~statsFile.exists /\ dashboardFile.exists) =>
            LET data == dashes[d].result
            IN  /\ data.stats = DefaultStats
                /\ data.stats.weeklyRevenue = DefaultWeeklyRevenue
                /\ data.stats.pendingTasks = DefaultPendingTasks
                /\ data.stats.unreadMessages = DefaultUnreadMessages
                /\ data.stats.aiUptime = DefaultAiUptime
                /\ data.aiActive
                /\ data.dashboardContent = dashboardFile.content
                /\ {data.pendingApprovals[i].file :
                       i \in DOMAIN data.pendingApprovals} = PendingMd
                /\ Len(data.pendingApprovals) = Cardinality(PendingMd)
                /\ data.recentActivities \in
                       {getRecentActivities(ms) : ms \in StartMs..now}

\* C16's case: a snapshot answered with no stats file, a pending request on
\* disk and a day-bucket file with entries
C16_Witness ==
    \E d \in Dashboards :
        /\ Snapshot(d) /\ ~statsFile.exists /\ dashboardFile.exists
        /\ dashes[d].result.pendingApprovals # <<>>
        /\ logFile.exists /\ Len(logFile.entries) > 0

\* request r's move of a file out of the pending bucket succeeded and r was
\* answered with success
Decided(r) == Answered(r) /\ reqs[r].status = 200 /\ reqs[r].approvalFile # None

\* the entries of the day-bucket file that describe decision act of approval id
EntriesFor(id, act) ==
    {i \in DOMAIN logFile.entries :
        /\ logFile.entries[i].approvalId = id
        /\ logFile.entries[i].action = act}

\* C12: once every request has been answered, each decision whose move
\* succeeded has its own entry in the day-bucket file: for each id and
\* outcome there are as many entries as successful decisions.
C12_DecisionIsLogged ==
    (\A r \in Requests : Answered(r)) =>
        \A r \in Requests :
            Decided(r) =>
                Cardinality(EntriesFor(reqs[r].approvalId, reqs[r].action)) >=
                Cardinality({q \in Requests :
                                /\ Decided(q)
                                /\ reqs[q].approvalId = reqs[r].approvalId
                                /\ reqs[q].action = reqs[r].action})

\* C13: the step that takes in a POST /api/approve request with no id or no
\* outcome answers it with status 400 at once and changes neither the vault,
\* nor the executed actions, nor the day-bucket file.
C13_MissingFieldIsRejected ==
    [][\A r \in Requests :
          (/\ reqs[r].pc = "idle" /\ reqs'[r].pc # "idle"
           /\ (reqs'[r].approvalId = 0 \/ reqs'[r].action = ""))
          => /\ reqs'[r].pc = "done"
             /\ reqs'[r].status = 400
             /\ reqs'[r].approvalFile = None
             /\ UNCHANGED <<vault, dirs, dirOrder, logFile, executed, written>>]_vars

\* C13's case: a request with an id and no outcome was answered 400 while the
\* file its id names is pending, and nothing has been moved, run or logged
C13_Witness ==
    \E r \in Requests :
        /\ Answered(r) /\ reqs[r].status = 400
        /\ reqs[r].approvalId = 1 /\ reqs[r].action = ""
        /\ "PAY_1.md" \in DOMAIN Pending
        /\ DOMAIN Approved = {} /\ DOMAIN Rejected = {}
        /\ executed = <<>> /\ ~logFile.exists

\* a GET /api/approvals request has been answered
ListingDone(l) == lists[l].pc = "done"

\* C17: two listings of a vault that nothing writes to return the same
\* records, with the same ids, in the same order.
C17_ListingIsIdempotent ==
    \A k, l \in ListingPair :
        (ListingDone(k) /\ ListingDone(l)) => lists[k].approvals = lists[l].approvals

\* C18: in a listing, no two records have the same id.
C18_IdsAreDistinct ==
    \A l \in ListingPair :
        ListingDone(l) =>
            \A i, j \in DOMAIN lists[l].approvals :
                i # j => lists[l].approvals[i].id # lists[l].approvals[j].id

\* C14: the step that handles a POST /api/process request whose action is
\* none of emails, whatsapp, audit, report answers it with a 4xx status,
\* calls no routine and leaves the server running.
C14_UnknownActionIsClientError ==
    [][\A p \in Processes :
          (/\ procs[p].pc = "idle" /\ procs'[p].pc = "done"
           /\ procs'[p].action \notin KnownActions)
          => /\ procs'[p].status \in 400..499
             /\ called' = called
             /\ alive']_vars

\* the part of the broadcast events that socket ws was open for: those after
\* it connected and, once it is closing or closed, before it left
OpenFor(ws) ==
    IF sockets[ws] = Connecting THEN <<>>
    ELSE SubSeq(events, joinedAt[ws] + 1,
                IF sockets[ws] = Open THEN Len(events) ELSE leftAt[ws])

\* C19: each socket has received exactly the events broadcast while it was
\* in the Set with an open channel, once each and in order: none from before
\* it connected, none from after it started closing; and a socket whose
\* 'close' event was handled is no longer in the Set.
C19_BroadcastReachesOpenClients ==
    /\ \A ws \in Sockets : inbox[ws] = OpenFor(ws)
    /\ \A ws \in Sockets : ws \in clients <=> sockets[ws] \in {Open, Closing}

\* C19's case: after two broadcasts, a socket still in the Set but closing
\* has only the first, and a socket that connected after the first has only
\* the second
C19_Witness ==
    \E a, b \in Sockets :
        /\ Len(events) = 2
        /\ sockets[a] = Closing /\ a \in clients /\ inbox[a] = <<events[1]>>
        /\ sockets[b] = Open /\ joinedAt[b] = 1 /\ inbox[b] = <<events[2]>>

\* C20: no failure of the routine a cron callback calls leaves the callback
\* or stops the process: every failure is caught, and the server stays up for
\* the later ticks.
C20_TickFailureIsCaught ==
    rejections = 0 /\ alive

\* C21: a request one of whose storage writes for the decision failed
\* (creating the destination bucket, renaming the file, rewriting its
\* header) has been answered, and not with success.
C21_WriteFailurePropagates ==
    \A r \in Requests :
        reqs[r].failedAt \in {"mkdir", "rename", "writeFile"}
        => /\ Answered(r)
           /\ reqs[r].status = 500

\* C21's case: the rewrite of the header failed after the file was moved,
\* and the request was answered 500
C21_Witness ==
    \E r \in Requests :
        /\ reqs[r].failedAt = "writeFile"
        /\ Answered(r) /\ reqs[r].status = 500
        /\ reqs[r].approvalFile \in DOMAIN vault[DestDir(reqs[r].action)]

\* C27: the rename step of a request whose outcome is neither approve nor
\* reject moves no file: the vault is as before the step.
C27_InvalidOutcomeMovesNothing ==
    [][\A r \in Requests :
          (/\ reqs[r].action \notin {"approve", "reject"}
           /\ reqs[r].pc = "rename" /\ reqs'[r].pc # "rename")
          => vault' = vault]_vars

\* C28: the file of a request answered with a failure is in the pending
\* bucket with status pending.
C28_FailureMeansNoEffect ==
    \A r \in Requests :
        (Answered(r) /\ reqs[r].status = 500 /\ reqs[r].approvalFile # None)
        => /\ reqs[r].approvalFile \in DOMAIN Pending
           /\ StatusOf(Pending[reqs[r].approvalFile]) = "pending"

\* the files a snapshot lists as pending
ListedIn(d) ==
    {dashes[d].result.pendingApprovals[i].file :
        i \in DOMAIN dashes[d].result.pendingApprovals}

\* C22: two snapshots have the same stats, whatever was decided before,
\* between or during them.
C22_DecideKeepsStats ==
    \A d, e \in DashPair :
        (Snapshot(d) /\ Snapshot(e))
        => dashes[d].result.stats = dashes[e].result.stats

\* C22's case: the first snapshot lists a pending file, a decision then
\* moved that file, and the second snapshot no longer lists it
C22_Witness ==
    \E r \in Deciders :
        /\ Decided(r)
        /\ Snapshot(1) /\ Snapshot(2)
        /\ reqs[r].approvalFile \in ListedIn(1)
        /\ reqs[r].approvalFile \notin ListedIn(2)
        /\ ListedIn(2) # {}

\* C23: a snapshot taken while today's day-bucket file does not exist has
\* the one-entry seed as recentActivities: a single 'System initialized'
\* entry, never an empty list.
C23_SeedOnFirstRun ==
    \A d \in Dashboards :
        (Snapshot(d) /\ ~logFile.exists)
        => /\ Len(dashes[d].result.recentActivities) = 1
           /\ dashes[d].result.recentActivities[1].title = "System initialized"
           /\ dashes[d].result.recentActivities \in
                  {getSampleActivities(ms) : ms \in StartMs..now}

\* C23's case: a snapshot computed from the vault (dashboard document
\* readable, a pending request listed) with no day-bucket file
C23_Witness ==
    \E d \in Dashboards :
        /\ Snapshot(d) /\ ~logFile.exists
        /\ dashboardFile.exists /\ StatsContent.valid
        /\ dashes[d].result.pendingApprovals # <<>>

\* the types of the messages the push channel may carry
EventTypes == {"audit_completed", "status_update"}

\* C24: a step that broadcasts audit_completed is a weekly tick whose audit
\* was called and did not fail; a step in which an audit fails broadcasts
\* nothing; and every message broadcast or received has type audit_completed
\* or status_update.
C24_AuditThenBroadcast ==
    [][/\ (Len(events') > Len(events) /\ events'[Len(events')].type = "audit_completed")
          => /\ called' = Append(called, "runBusinessAudit")
             /\ rejections' = rejections
       /\ rejections' # rejections => (events' = events /\ inbox' = inbox)
       /\ \A i \in DOMAIN events' : events'[i].type \in EventTypes
       /\ \A ws \in Sockets : \A i \in DOMAIN inbox'[ws] :
             inbox'[ws][i].type \in EventTypes]_vars

\* C24's case: of two weekly ticks one audit failed and one completed; there
\* is one event, audit_completed, and an open socket has received it
C24_Witness ==
    /\ rejections = 1
    /\ Len(events) = 1 /\ events[1].type = "audit_completed"
    /\ Occurrences(called, "runBusinessAudit") = 2
    /\ \E ws \in Sockets : sockets[ws] = Open /\ inbox[ws] = events

\* C25: a file leaves the pending bucket only in the step of a request whose
\* id is the file's own identifier, and a file that stays keeps its content.
C25_DecideTouchesOnlyItsFile ==
    [][\A f \in DOMAIN Pending :
          IF f \in DOMAIN Pending'
          THEN Pending'[f] = Pending[f]
          ELSE \E r \in Requests :
                  /\ reqs[r].pc = "rename" /\ reqs'[r].pc # "rename"
                  /\ reqs[r].approvalFile = f
                  /\ reqs[r].approvalId = IdOf(f, now)]_vars

\* C26: once the decision of a listed record through its listed id has been
\* answered, the record's file has left the pending bucket and is in the
\* bucket of the outcome.
C26_ListedIdDecides ==
    \A r \in Deciders :
        (Answered(r) /\ reqs[r].listed # None)
        => /\ reqs[r].listed \notin DOMAIN Pending
           /\ reqs[r].listed \in DOMAIN vault[DestDir(reqs[r].action)]

====
